---------------------------- MODULE Spec2Model ----------------------------
(***************************************************************************)
(* Model of @kakang/fastify-packed (src/lib/index.ts): the Packed plugin   *)
(* function, createPackedPlugin and version(), with the helpers            *)
(* checkEnable, parseOption and requireOptionalDependency.                 *)
(*                                                                         *)
(* JavaScript values are records with a field t naming their kind.  The    *)
(* host (fastify), the optional modules, the file system and the option    *)
(* factories are outside the repository: what they answer (a module is     *)
(* locatable or not, a registration resolves or rejects, a factory returns *)
(* or throws, env-schema accepts or throws, the manifest's content) is an  *)
(* input of the step that asks, drawn with \E.                             *)
(***************************************************************************)
EXTENDS Naturals, Sequences, FiniteSets

VARIABLES
    optionsArg,   \* the options argument Packed was called with (never written)
    options,      \* Packed's local `options` (line 96 rebinds it)
    pc,           \* the statement Packed runs next, "done" or "failed"
    inflight,     \* subsystems whose fastify.register promise is pending
    plugins,      \* host: the registrations that completed, in order
    decorated,    \* host: the fastify.decorate writes, in order
    error,        \* the rejection of Packed's promise, kind "none" while there is none
    log,          \* trace of the calls Packed made to its collaborators
    created,      \* what createPackedPlugin returned or threw
    versionCalls  \* the calls of version(): manifest read and value returned

vars == <<optionsArg, options, pc, inflight, plugins, decorated, error, log,
          created, versionCalls>>

-----------------------------------------------------------------------------
(* Bounds *)

\* a configuration holds at most this many values other than omitted / true
MaxCustom == 1

\* version() is called at most this many times in the version specification
MaxCalls == 3

-----------------------------------------------------------------------------
(* JavaScript values *)

Undefined == [t |-> "undefined"]
Null      == [t |-> "null"]
False     == [t |-> "boolean", b |-> FALSE]
True      == [t |-> "boolean", b |-> TRUE]
StrValue(s) == [t |-> "string", s |-> s]
ArrValue  == [t |-> "array"]
\* an object literal, by its own properties (values written as source text)
ObjValue(props) == [t |-> "object", props |-> props]
\* a zero-argument function, by the value a call returns
FnValue(ret) == [t |-> "function", ret |-> ret]

EmptyObject   == ObjValue({})
UserOptions   == ObjValue({<<"custom", "'user'">>})
FactoryResult == ObjValue({<<"custom", "'factory'">>})

\* typeof
TypeOf(v) ==
    CASE v.t \in {"null", "array", "object", "module", "env"} -> "object"
      [] OTHER -> v.t

\* Array.isArray
IsArray(v) == v.t = "array"

\* the enablement values a configuration may hold
OmittedOrTrue == {Undefined, True}
\* (a number takes checkEnable's path of a string: neither object nor function)
CustomValues  == {False, Null, StrValue("on"), ArrValue,
                  UserOptions, FnValue(FactoryResult)}
Values        == OmittedOrTrue \cup CustomValues

-----------------------------------------------------------------------------
(* The seven subsystems, in the order Packed's body treats them *)

Subs == <<"env", "cors", "swagger", "helmet", "underPressure", "jwt", "mongodb">>

SubSet == {Subs[i] : i \in 1..Len(Subs)}

IdxOf == [s \in SubSet |-> CHOOSE i \in 1..Len(Subs) : Subs[i] = s]

\* the place of subsystem s in that order
Idx(s) == IdxOf[s]

\* mutant: the helmet block written before the swagger block
AfterHelmetFirst(s) ==
    CASE s = "cors"    -> "helmet"
      [] s = "helmet"  -> "swagger"
      [] s = "swagger" -> "underPressure"
      [] OTHER -> IF Idx(s) = Len(Subs) THEN "end" ELSE Subs[Idx(s) + 1]

\* the statement after subsystem s's block
After(s) == IF Idx(s) = Len(Subs) THEN "end" ELSE Subs[Idx(s) + 1]

\* the identifier each block hands to requireOptionalDependency
ModuleName(s) ==
    CASE s = "env"           -> "env-schema"
      [] s = "cors"          -> "@fastify/cors"
      [] s = "swagger"       -> "@fastify/swagger"
      [] s = "helmet"        -> "@fastify/helmet"
      [] s = "underPressure" -> "under-pressure"
      [] s = "jwt"           -> "@fastify/jwt"
      [] s = "mongodb"       -> "@fastify/mongodb"

\* package.json, optionalDependencies
OptionalDependencies ==
    {"env-schema", "@fastify/cors", "@fastify/helmet", "@fastify/jwt",
     "@fastify/mongodb", "@fastify/swagger", "@fastify/under-pressure"}

\* crypto.randomBytes(8)
SecretBytes == 8

ByteSamples == {10, 255}

RandomBytes == {[i \in 1..SecretBytes |-> b] : b \in ByteSamples}

HexDigit == <<"0", "1", "2", "3", "4", "5", "6", "7",
              "8", "9", "a", "b", "c", "d", "e", "f">>

\* Buffer.toString('hex'): two digits per byte, high nibble first
ToHex(bytes) ==
    [i \in 1..(2 * Len(bytes)) |->
        LET byte == bytes[(i + 1) \div 2]
        IN  IF i % 2 = 1 THEN HexDigit[(byte \div 16) + 1]
                         ELSE HexDigit[(byte % 16) + 1]]

\* the built-in default each block hands to parseOption
DefaultOptions(s, bytes) ==
    CASE s = "env"     -> EmptyObject
      [] s = "cors"    -> ObjValue({<<"origin", "true">>})
      [] s = "swagger" -> EmptyObject
      [] s = "helmet"  ->
            ObjValue({<<"contentSecurityPolicy",
                        "fastifyHelmet.contentSecurityPolicy.getDefaultDirectives()">>})
      [] s = "underPressure" ->
            ObjValue({<<"maxEventLoopDelay", "1000">>,
                      <<"message", "'System is under pressure, please try again later.'">>,
                      <<"retryAfter", "50">>,
                      <<"exposeStatusRoute", "true">>})
      [] s = "jwt"     ->
            [t |-> "object", props |-> {<<"secret", "randomBytes(8).toString('hex')">>},
             secret |-> ToHex(bytes)]
      [] s = "mongodb" ->
            ObjValue({<<"url", "'mongodb://127.0.0.1:27017'">>,
                      <<"database", "'default'">>})

-----------------------------------------------------------------------------
(* Helpers *)

\* requireOptionalDependency(name): the module, or false when require throws
RequireOptionalDependency(name, locatable) ==
    IF locatable THEN [t |-> "module", name |-> name] ELSE False

\* mutant: `typeof option === 'boolean'` for `option === true`
CheckEnableAnyBoolean(option) ==
    \/ TypeOf(option) = "boolean"
    \/ (TypeOf(option) = "object" /\ option # Null /\ ~IsArray(option))
    \/ TypeOf(option) = "function"

\* mutant: the null and Array.isArray tests left out
CheckEnableAnyObject(option) ==
    \/ option = True
    \/ TypeOf(option) = "object"
    \/ TypeOf(option) = "function"

\* checkEnable(option)
CheckEnable(option) ==
    \/ option = True
    \/ (TypeOf(option) = "object" /\ option # Null /\ ~IsArray(option))
    \/ TypeOf(option) = "function"

\* mutant: the function is returned, not its result
ParseOptionUncalled(option, def) ==
    IF option = True THEN def
    ELSE IF option = False THEN EmptyObject
    ELSE option

\* parseOption(option, def); a function option is called, see FactoryCalled
ParseOption(option, def) ==
    IF option = True THEN def
    ELSE IF option = False THEN EmptyObject
    ELSE IF TypeOf(option) = "function" THEN option.ret
    ELSE option

\* parseOption calls option() exactly when it takes its third branch
FactoryCalled(option) ==
    option # True /\ option # False /\ TypeOf(option) = "function"

\* mutant: the message copied from the cors block, its identifier unchanged
MissingDependencyNamesCors(name) ==
    [kind |-> "Error",
     message |-> <<"please install ", "@fastify/cors",
                   " with the following command:\nnpm install ", "@fastify/cors",
                   "\nyarn add ", "@fastify/cors">>]

\* the Error each block throws when its module is not locatable
MissingDependency(name) ==
    [kind |-> "Error",
     message |-> <<"please install ", name,
                   " with the following command:\nnpm install ", name,
                   "\nyarn add ", name>>]

\* an error thrown by a collaborator, as Packed's caller receives it
Raised(by, s) == [kind |-> "raised", by |-> by, sub |-> s]

NoError == [kind |-> "none"]

\* envSchema(opt): the resolved mapping, a function of the options it is given
EnvSchema(opt) == [t |-> "env", of |-> opt]


-----------------------------------------------------------------------------
(* version() and the manifest it reads *)

\* process.version
RuntimeVersion == StrValue("v18.0.0")

ManifestKeys    == {"name", "version"}
ManifestStrings == {"1.0.2"}

\* a JSON object: its members as <<key, string value>> pairs, one per key
JsonObjects ==
    UNION {{[t |-> "object", members |-> {<<k, f[k]>> : k \in keys}] :
                f \in [keys -> ManifestStrings]} : keys \in SUBSET ManifestKeys}

\* what JSON.parse can make of the file's text; "invalid" has no parse
JsonTexts == {[t |-> "invalid"], Null} \cup JsonObjects

\* ./package.json as fs.readFileSync finds it
Manifests ==
    {[k |-> "missing"], [k |-> "unreadable"]}
        \cup {[k |-> "file", json |-> j] : j \in JsonTexts}

\* value.version for a parsed JSON value other than null
VersionMember(j) ==
    IF j.t = "object" /\ \E m \in j.members : m[1] = "version"
    THEN StrValue((CHOOSE m \in j.members : m[1] = "version")[2])
    ELSE Undefined

\* version(): readFileSync or JSON.parse throwing, or reading a member of null,
\* lands in the catch; anything else returns the member read
Version(m) ==
    IF m.k # "file" THEN RuntimeVersion
    ELSE IF m.json.t = "invalid" THEN RuntimeVersion
    ELSE IF m.json = Null THEN RuntimeVersion
    ELSE VersionMember(m.json)

-----------------------------------------------------------------------------
(* Initial states *)

EmptyConfig == [s \in SubSet |-> Undefined]

RECURSIVE ConfigsWith(_)
\* the configurations with at most n values other than omitted / true
ConfigsWith(n) ==
    IF n = 0 THEN [SubSet -> OmittedOrTrue]
    ELSE LET less == ConfigsWith(n - 1)
         IN  less \cup {[c EXCEPT ![s] = v] :
                            c \in less, s \in SubSet, v \in CustomValues}

Config(c) == [t |-> "config", cfg |-> c]

\* the options argument: omitted, null, or a configuration object
OptionArgs == {Undefined, Null} \cup {Config(c) : c \in ConfigsWith(MaxCustom)}

NotCreated == [called |-> FALSE]

InitWith(args) ==
    /\ optionsArg \in args
    /\ options = optionsArg
    /\ pc = "start"
    /\ inflight = {}
    /\ plugins = <<>>
    /\ decorated = <<>>
    /\ error = NoError
    /\ log = <<>>
    /\ created = NotCreated
    /\ versionCalls = <<>>

Init == InitWith(OptionArgs)

-----------------------------------------------------------------------------
(* Packed(fastify, options) *)

\* options ?? {}
Coalesce(o) == IF o = Undefined \/ o = Null THEN Config(EmptyConfig) ELSE o

\* options.<s>
GetOption(o, s) == o.cfg[s]

\* mutant: fastify.register called without await
NotAwaited == TRUE

\* `await fastify.register(...)`: the body continues once the promise settled
Awaited == inflight = {}

\* mutant: a catch that throws a new Error in place of the one caught
RethrowWrapped(e) ==
    IF e.kind = "Error" THEN e
    ELSE [kind |-> "Error", message |-> <<"registration failed">>]

\* a rejection or a throw inside the async body rejects Packed's promise with
\* the same value: no statement of the body catches
Rethrow(e) == e

Host == <<inflight, plugins, decorated>>
Others == <<optionsArg, created, versionCalls>>

RequireEvent(s, found) ==
    [k |-> "require", sub |-> s, name |-> ModuleName(s), found |-> found]
CallEvent(s) == [k |-> "call", sub |-> s]
RegisterEvent(s, module, opt) ==
    [k |-> "register", sub |-> s, name |-> module.name, opt |-> opt]
SettleEvent(s, ok) == [k |-> "settled", sub |-> s, ok |-> ok]
DecorateEvent(key) == [k |-> "decorate", key |-> key]
EnvSchemaEvent(opt) == [k |-> "envSchema", opt |-> opt]

\* the body throws e after making the calls in events
Throw(e, events) ==
    /\ pc' = "failed"
    /\ error' = Rethrow(e)
    /\ log' = log \o events
    /\ UNCHANGED <<options, Host, Others>>

\* the defaults a block may compute: jwt's holds fresh random bytes
DefaultsOf ==
    [s \in SubSet |->
        {DefaultOptions(s, bytes) :
            bytes \in (IF s = "jwt" THEN RandomBytes ELSE {<<>>})}]

Defaults(s) == DefaultsOf[s]

\* whether the factory's call returns: asked only when parseOption calls it
CallOutcomes(option) == IF FactoryCalled(option) THEN BOOLEAN ELSE {TRUE}

CallEvents(s, option) == IF FactoryCalled(option) THEN <<CallEvent(s)>> ELSE <<>>

Start ==
    /\ pc = "start"
    /\ options' = Coalesce(options)
    /\ pc' = "env"
    /\ UNCHANGED <<Host, error, log, Others>>

\* one `if (checkEnable(options.<s>)) { ... await fastify.register(...) }` block
Block(s) ==
    /\ pc = s
    /\ Awaited
    /\ LET option == GetOption(options, s)
       IN  IF ~CheckEnable(option)
           THEN /\ pc' = After(s)
                /\ UNCHANGED <<options, Host, error, log, Others>>
           ELSE \E locatable \in BOOLEAN, def \in Defaults(s),
                   returns \in CallOutcomes(option) :
                LET module == RequireOptionalDependency(ModuleName(s), locatable)
                    opt    == ParseOption(option, def)
                    probe  == <<RequireEvent(s, locatable)>>
                IN  IF module = False
                    THEN Throw(MissingDependency(ModuleName(s)), probe)
                    ELSE IF ~returns
                    THEN Throw(Raised("factory", s), probe \o CallEvents(s, option))
                    ELSE /\ inflight' = inflight \cup
                                {[sub |-> s, name |-> module.name, opt |-> opt]}
                         /\ log' = log \o probe \o CallEvents(s, option)
                                       \o <<RegisterEvent(s, module, opt)>>
                         /\ pc' = After(s)
                         /\ UNCHANGED <<options, plugins, decorated, error, Others>>

CorsBlock          == Block("cors")
SwaggerBlock       == Block("swagger")
HelmetBlock        == Block("helmet")
UnderPressureBlock == Block("underPressure")
JwtBlock           == Block("jwt")
MongodbBlock       == Block("mongodb")

\* the environment block up to `await fastify.decorate('config', env)`
EnvBlock ==
    /\ pc = "env"
    /\ Awaited
    /\ LET option == GetOption(options, "env")
       IN  IF ~CheckEnable(option)
           THEN /\ pc' = After("env")
                /\ UNCHANGED <<options, Host, error, log, Others>>
           ELSE \E locatable \in BOOLEAN, returns \in CallOutcomes(option),
                   valid \in BOOLEAN :
                LET envSchema == RequireOptionalDependency(ModuleName("env"), locatable)
                    opt    == ParseOption(option, EmptyObject)
                    probe  == <<RequireEvent("env", locatable)>>
                    called == probe \o CallEvents("env", option)
                IN  IF envSchema = False
                    THEN Throw(MissingDependency(ModuleName("env")), probe)
                    ELSE IF ~returns
                    THEN Throw(Raised("factory", "env"), called)
                    ELSE IF ~valid
                    THEN Throw(Raised("envSchema", "env"),
                               called \o <<EnvSchemaEvent(opt)>>)
                    ELSE /\ decorated' = Append(decorated,
                                [key |-> "config", value |-> EnvSchema(opt)])
                         /\ log' = called \o <<EnvSchemaEvent(opt),
                                                DecorateEvent("config")>>
                         /\ pc' = "envVersion"
                         /\ UNCHANGED <<options, inflight, plugins, error, Others>>

\* `await fastify.decorate('VERSION', version())`
EnvVersion ==
    /\ pc = "envVersion"
    /\ Awaited
    /\ \E m \in Manifests :
          decorated' = Append(decorated, [key |-> "VERSION", value |-> Version(m)])
    /\ log' = Append(log, DecorateEvent("VERSION"))
    /\ pc' = After("env")
    /\ UNCHANGED <<options, inflight, plugins, error, Others>>

\* the host resolves a pending registration
RegisterResolve ==
    \E r \in inflight :
        /\ pc # "failed"
        /\ inflight' = inflight \ {r}
        /\ plugins' = Append(plugins, r)
        /\ log' = Append(log, SettleEvent(r.sub, TRUE))
        /\ UNCHANGED <<options, pc, decorated, error, Others>>

\* the host rejects a pending registration: the plugin's own entry point threw
RegisterReject ==
    \E r \in inflight :
        /\ pc # "failed"
        /\ inflight' = inflight \ {r}
        /\ pc' = "failed"
        /\ error' = Rethrow(Raised("register", r.sub))
        /\ log' = Append(log, SettleEvent(r.sub, FALSE))
        /\ UNCHANGED <<options, plugins, decorated, Others>>

\* the end of the body: Packed's promise resolves
Return ==
    /\ pc = "end"
    /\ Awaited
    /\ pc' = "done"
    /\ UNCHANGED <<options, Host, error, log, Others>>

Next ==
    \/ Start
    \/ EnvBlock
    \/ EnvVersion
    \/ CorsBlock
    \/ SwaggerBlock
    \/ HelmetBlock
    \/ UnderPressureBlock
    \/ JwtBlock
    \/ MongodbBlock
    \/ RegisterResolve
    \/ RegisterReject
    \/ Return

Spec == Init /\ [][Next]_vars

-----------------------------------------------------------------------------
(* createPackedPlugin(envOptions) *)

\* the call returns { plugin, version, env } or throws; it is given no host
CreatePackedPlugin ==
    /\ pc = "start"
    /\ created = NotCreated
    /\ \E envOptions \in Values :
          IF ~CheckEnable(envOptions)
          THEN created' = [called |-> TRUE, arg |-> envOptions, threw |-> FALSE,
                           env |-> EmptyObject, error |-> NoError]
          ELSE \E locatable \in BOOLEAN, returns \in CallOutcomes(envOptions),
                  valid \in BOOLEAN :
               LET envSchema == RequireOptionalDependency(ModuleName("env"), locatable)
                   opt == ParseOption(envOptions, EmptyObject)
                   thrown(e) == [called |-> TRUE, arg |-> envOptions, threw |-> TRUE,
                                 env |-> Undefined, error |-> e]
               IN  IF envSchema = False
                   THEN created' = thrown(MissingDependency(ModuleName("env")))
                   ELSE IF ~returns
                   THEN created' = thrown(Raised("factory", "env"))
                   ELSE IF ~valid
                   THEN created' = thrown(Raised("envSchema", "env"))
                   ELSE created' = [called |-> TRUE, arg |-> envOptions,
                                    threw |-> FALSE, env |-> EnvSchema(opt),
                                    error |-> NoError]
    /\ UNCHANGED <<optionsArg, options, pc, Host, error, log, versionCalls>>

\* the environment value varies over every kind; the other six are all
\* omitted or all true
CreateArgs ==
    {Config([c EXCEPT !["env"] = v]) :
        c \in {EmptyConfig, [s \in SubSet |-> True]}, v \in Values}

InitCreate == InitWith(CreateArgs)

NextCreate == CreatePackedPlugin \/ Next

SpecCreate == InitCreate /\ [][NextCreate]_vars

-----------------------------------------------------------------------------
(* version() on its own *)

VersionCall ==
    /\ Len(versionCalls) < MaxCalls
    /\ \E m \in Manifests :
          versionCalls' = Append(versionCalls, [manifest |-> m, result |-> Version(m)])
    /\ UNCHANGED <<optionsArg, options, pc, Host, error, log, created>>

InitVersion == InitWith({Undefined})

NextVersion == VersionCall

SpecVersion == InitVersion /\ [][NextVersion]_vars

-----------------------------------------------------------------------------
(* Vocabulary of the properties *)

\* the configuration the caller meant: an omitted argument is the empty one
ConfigOf(arg) == IF arg.t = "config" THEN arg.cfg ELSE EmptyConfig

Cfg == ConfigOf(optionsArg)

LogIdx(kind) == {i \in DOMAIN log : log[i].k = kind}

Probed(s)     == \E i \in LogIdx("require") : log[i].sub = s
FactoryRan(s) == \E i \in LogIdx("call") : log[i].sub = s
Invoked(s)    == \E i \in LogIdx("register") : log[i].sub = s
Registered(s) == \E i \in DOMAIN plugins : plugins[i].sub = s

\* the calls that go to one subsystem's module, factory or registration
SubKinds == {"require", "call", "register", "settled"}

\* no call was made for subsystem s and the host holds nothing of it
Untouched(s) ==
    /\ \A i \in DOMAIN log : log[i].k \in SubKinds => log[i].sub # s
    /\ ~Registered(s)
    /\ \A r \in inflight : r.sub # s

\* every subsystem for which a call was made, or of which the host holds
\* something, has a value satisfying Q
TouchedOnly(Q(_)) ==
    /\ \A i \in DOMAIN log : log[i].k \in SubKinds => Q(Cfg[log[i].sub])
    /\ \A i \in DOMAIN plugins : Q(Cfg[plugins[i].sub])
    /\ \A r \in inflight : Q(Cfg[r.sub])

\* an enablement value of one of the three enabling kinds
IsTrueObjectOrFunction(v) == v = True \/ v.t \in {"object", "function"}

\* false or omitted
IsFalseOrOmitted(v) == v = False \/ v = Undefined
IsNotFalseNorOmitted(v) == ~IsFalseOrOmitted(v)

\* the block of subsystem s has run to its end in a body that has not failed
Position ==
    CASE pc = "start"           -> 0
      [] pc = "envVersion"      -> 1
      [] pc \in {"end", "done"} -> Len(Subs) + 1
      [] pc \in SubSet          -> Idx(pc)
      [] OTHER                  -> 0
Passed(s) == pc # "failed" /\ Position > Idx(s)

\* the subsystem whose collaborator the last logged call went to
LastSub == IF log[Len(log)].k = "decorate" \/ log[Len(log)].k = "envSchema"
           THEN "env" ELSE log[Len(log)].sub

LaterEnabled(s) ==
    \E l \in SubSet : Idx(l) > Idx(s) /\ IsTrueObjectOrFunction(Cfg[l])

SubsOf(seq) == [i \in DOMAIN seq |-> seq[i].sub]

IsRegister(e) == e.k = "register"
IsSettledOk(e) == e.k = "settled" /\ e.ok
IsDecorate(e) == e.k = "decorate"
IsPluginEnabled(s) == s # "env" /\ IsTrueObjectOrFunction(Cfg[s])

-----------------------------------------------------------------------------
(* C1: whenever the probe of an enabled subsystem's module finds it not    *)
(* locatable, Packed has failed with the Error whose message names exactly *)
(* the identifier that was probed, that probe is the last call Packed made *)
(* (no later subsystem is probed, has a factory called or is registered)   *)
(* and nothing is left in flight.                                          *)
C1_MissingDependencyFailsFast ==
    \A i \in LogIdx("require") :
        ~log[i].found =>
            /\ IsTrueObjectOrFunction(Cfg[log[i].sub])
            /\ pc = "failed"
            /\ error.kind = "Error"
            /\ error.message = <<"please install ", log[i].name,
                                 " with the following command:\nnpm install ",
                                 log[i].name, "\nyarn add ", log[i].name>>
            /\ i = Len(log)
            /\ inflight = {}
            /\ \A l \in SubSet : Idx(l) > Idx(log[i].sub) => Untouched(l)

\* jwt's module is missing after earlier registrations, mongodb is enabled
C1_Witness ==
    /\ pc = "failed"
    /\ error.kind = "Error"
    /\ Len(plugins) >= 1
    /\ log[Len(log)].k = "require"
    /\ ~log[Len(log)].found
    /\ LaterEnabled(log[Len(log)].sub)

-----------------------------------------------------------------------------
(* C2: a subsystem whose value is false or omitted is never probed, never  *)
(* has a factory called, is never registered and is not what an error is   *)
(* about; and when all seven are false or omitted (the argument itself     *)
(* omitted included) Packed never fails, makes no call at all (zero        *)
(* registrations, zero decorations) and runs on until it is done.          *)
C2_DisabledIsUntouched ==
    /\ TouchedOnly(IsNotFalseNorOmitted)
    /\ pc = "failed" => ~IsFalseOrOmitted(Cfg[LastSub])
    /\ (\A s \in SubSet : IsFalseOrOmitted(Cfg[s])) =>
          /\ pc # "failed"
          /\ error = NoError
          /\ log = <<>>
          /\ plugins = <<>>
          /\ decorated = <<>>
          /\ inflight = {}
          /\ (pc = "done" \/ ENABLED Next)

\* all disabled, one of them by an explicit false, and Packed is done
C2_Witness ==
    /\ pc = "done"
    /\ \A s \in SubSet : IsFalseOrOmitted(Cfg[s])
    /\ \E s \in SubSet : Cfg[s] = False

-----------------------------------------------------------------------------
(* C3: register is invoked in the fixed order cors, swagger, helmet,       *)
(* underPressure, jwt, mongodb; every call of the environment step (probe, *)
(* env-schema, both decorations) precedes every register; once Packed is   *)
(* done the registrations are exactly the enabled subsystems in that       *)
(* order; and helmet's register is invoked only after swagger's            *)
(* registration completed, whenever both are enabled.                      *)
C3_FixedOrder ==
    /\ \A i, j \in LogIdx("register") :
          i < j => Idx(log[i].sub) < Idx(log[j].sub)
    /\ \A j \in LogIdx("register") :
          \A i \in j..Len(log) :
              /\ log[i].k \notin {"decorate", "envSchema"}
              /\ log[i].sub # "env"
    /\ (pc = "envVersion" => LogIdx("register") = {})
    /\ pc = "done" =>
          /\ SubsOf(SelectSeq(log, IsRegister)) = SelectSeq(Subs, IsPluginEnabled)
          /\ SubsOf(plugins) = SelectSeq(Subs, IsPluginEnabled)
    /\ \A j \in LogIdx("register") :
          (log[j].sub = "helmet" /\ IsTrueObjectOrFunction(Cfg["swagger"])) =>
              \E i \in LogIdx("settled") :
                  i < j /\ log[i].sub = "swagger" /\ log[i].ok

\* all seven enabled and registered, after both decorations
C3_Witness ==
    /\ pc = "done"
    /\ Len(plugins) = Len(Subs) - 1
    /\ Len(decorated) >= 1
    /\ Registered("swagger") /\ Registered("helmet")

-----------------------------------------------------------------------------
(* C4 as stated: every value other than false and omitted (true, an        *)
(* object, a function, and also a string, a number or an array) enables    *)
(* the subsystem, so its module is probed when its block runs.  (null is   *)
(* left out of the statement: the claim speaks of truthy values.)          *)
C4_AnyOtherValueEnables ==
    \A s \in SubSet :
        (Passed(s) /\ ~IsFalseOrOmitted(Cfg[s]) /\ Cfg[s] # Null) => Probed(s)

(* C4 as amended: a subsystem is treated as enabled (its module probed)    *)
(* exactly when its value is true, a non-null non-array object or a        *)
(* function; with any other value (false, omitted, null, a string, an      *)
(* array) its block makes no call at all.                                  *)
C4_EnabledIffTrueObjectOrFunction ==
    /\ TouchedOnly(IsTrueObjectOrFunction)
    /\ \A s \in SubSet :
          (Passed(s) /\ IsTrueObjectOrFunction(Cfg[s])) => Probed(s)

\* a string, an array or null was passed over without a probe
\* while an enabled subsystem was registered
C4_Witness ==
    /\ pc = "done"
    /\ \E s \in SubSet :
          /\ Cfg[s].t \in {"string", "array", "null"}
          /\ ~Probed(s)
    /\ plugins # <<>>

-----------------------------------------------------------------------------
(* C5: the options of every register call (and of every completed          *)
(* registration) are the subsystem's built-in default when its value is    *)
(* true, the factory's return value when it is a function, the factory     *)
(* having been called exactly once, after the probe and before the         *)
(* register, and the supplied object itself otherwise, no factory called.  *)
C5_ResolvedOptions ==
    /\ \A i \in DOMAIN log :
          log[i].k = "register" =>
              LET s == log[i].sub
                  v == Cfg[s]
                  calls == {c \in DOMAIN log : log[c].k = "call" /\ log[c].sub = s}
              IN  /\ log[i].name = ModuleName(s)
                  /\ v = True => (log[i].opt \in Defaults(s) /\ calls = {})
                  /\ v.t = "function" =>
                        /\ log[i].opt = v.ret
                        /\ calls = {i - 1}
                        /\ log[i - 2].k = "require"
                        /\ log[i - 2].sub = s
                  /\ v.t = "object" => (log[i].opt = v /\ calls = {})
    /\ \A p \in DOMAIN plugins :
          \E i \in DOMAIN log :
              /\ log[i].k = "register"
              /\ log[i].sub = plugins[p].sub
              /\ log[i].opt = plugins[p].opt
              /\ log[i].name = plugins[p].name

\* a default, a factory result and a supplied object each reached register
C5_Witness ==
    /\ \E i \in LogIdx("register") :
          Cfg[log[i].sub].t = "function" /\ log[i].opt = FactoryResult
    /\ \E i \in LogIdx("register") :
          Cfg[log[i].sub] = True /\ log[i].sub = "jwt" /\ Len(log[i].opt.secret) = 16
    /\ Len(plugins) >= 2

\* a supplied object reached register unchanged
C5_WitnessObject ==
    \E p \in DOMAIN plugins :
        Cfg[plugins[p].sub] = UserOptions /\ plugins[p].opt = UserOptions

-----------------------------------------------------------------------------
(* C6: when Packed is done with the environment subsystem enabled, the     *)
(* host holds the resolved mapping under 'config' and a non-empty string   *)
(* under 'VERSION', whatever the manifest held; and createPackedPlugin,    *)
(* called with the same enablement value and returning, returned the same  *)
(* mapping, with no host call made for it (it runs before Packed starts:   *)
(* the host is as Init left it in every state where Packed has not         *)
(* started).                                                               *)
C6_EnvironmentAndVersion ==
    /\ (pc = "done" /\ IsTrueObjectOrFunction(Cfg["env"])) =>
          /\ Len(decorated) = 2
          /\ decorated[1].key = "config"
          /\ decorated[1].value = EnvSchema(ParseOption(Cfg["env"], EmptyObject))
          /\ decorated[2].key = "VERSION"
          /\ decorated[2].value.t = "string"
          /\ decorated[2].value.s # ""
          /\ (created.called /\ ~created.threw /\ created.arg = Cfg["env"]) =>
                created.env = decorated[1].value
    /\ pc = "start" => (plugins = <<>> /\ decorated = <<>> /\ log = <<>>)

-----------------------------------------------------------------------------
(* C7: every call of version() returns the manifest's version member when  *)
(* the manifest is a readable, parsable JSON object with that member, and  *)
(* the runtime's version in every other case.                              *)
C7_VersionOrRuntimeVersion ==
    \A i \in DOMAIN versionCalls :
        LET m == versionCalls[i].manifest
            hasVersion == /\ m.k = "file"
                          /\ m.json.t = "object"
                          /\ \E x \in m.json.members : x[1] = "version"
        IN  IF hasVersion
            THEN \E x \in m.json.members :
                    x[1] = "version" /\ versionCalls[i].result = StrValue(x[2])
            ELSE versionCalls[i].result = RuntimeVersion

-----------------------------------------------------------------------------
(* C8: at most one registration is in flight; while one is, its register   *)
(* call is the last call Packed made (no probe, factory call, register or  *)
(* decoration begins before it settles) and every register call in the    *)
(* trace is directly followed by its own settlement; the host's decoration *)
(* store is written at most twice, 'config' then 'VERSION', both by the    *)
(* environment step, before any registration is invoked.                   *)
C8_StrictlySequential ==
    /\ Cardinality(inflight) <= 1
    /\ \A r \in inflight :
          /\ log # <<>>
          /\ log[Len(log)].k = "register"
          /\ log[Len(log)].sub = r.sub
    /\ \A i \in LogIdx("register") :
          \/ (i = Len(log) /\ \E r \in inflight : r.sub = log[i].sub)
          \/ (i < Len(log) /\ log[i + 1].k = "settled"
                           /\ log[i + 1].sub = log[i].sub)
    /\ Len(decorated) <= 2
    /\ Len(SelectSeq(log, IsDecorate)) = Len(decorated)
    /\ \A d \in DOMAIN decorated :
          decorated[d].key = (IF d = 1 THEN "config" ELSE "VERSION")
    /\ \A d \in LogIdx("decorate"), i \in LogIdx("register") : d < i

\* helmet's registration is in flight after swagger's completed and after
\* both decorations
C8_Witness ==
    /\ \E r \in inflight : r.sub = "helmet"
    /\ Registered("swagger")
    /\ Len(decorated) = 2

-----------------------------------------------------------------------------
(* C9: when a registration rejects, a factory throws or env-schema throws, *)
(* Packed has failed with exactly that error, the failed call is the last  *)
(* call Packed made, no subsystem is registered twice, no later subsystem  *)
(* is touched, and after any failure (a missing dependency included) every *)
(* registration that completed and every decoration made is still in the   *)
(* host.                                                                   *)
C9_ErrorsPropagateNoRollback ==
    /\ \A i \in LogIdx("settled") :
          ~log[i].ok =>
              /\ pc = "failed"
              /\ error = [kind |-> "raised", by |-> "register", sub |-> log[i].sub]
              /\ i = Len(log)
    /\ (pc = "failed" /\ log[Len(log)].k = "call") =>
          error = [kind |-> "raised", by |-> "factory", sub |-> log[Len(log)].sub]
    /\ (pc = "failed" /\ log[Len(log)].k = "envSchema") =>
          error = [kind |-> "raised", by |-> "envSchema", sub |-> "env"]
    /\ pc = "failed" =>
          /\ log # <<>>
          /\ error # NoError
          /\ inflight = {}
          /\ log[Len(log)].k \in {"require", "call", "envSchema", "settled"}
          /\ \A l \in SubSet : Idx(l) > Idx(LastSub) => Untouched(l)
    /\ pc # "failed" => error = NoError
    /\ \A i, j \in LogIdx("register") : log[i].sub = log[j].sub => i = j
    /\ SubsOf(plugins) = SubsOf(SelectSeq(log, IsSettledOk))
    /\ Len(decorated) = Len(SelectSeq(log, IsDecorate))

\* a registration rejected after the environment was decorated and an
\* earlier subsystem registered, with a later subsystem still enabled
C9_Witness ==
    /\ pc = "failed"
    /\ error.kind = "raised"
    /\ error.by = "register"
    /\ Len(plugins) >= 1
    /\ Len(decorated) = 2
    /\ LaterEnabled(error.sub)

-----------------------------------------------------------------------------
(* C10: every identifier Packed probes is one of the package's declared    *)
(* optional dependencies, so that a run in which exactly the declared ones *)
(* are locatable never fails with the missing-dependency Error.            *)
C10_ProbesDeclaredDependencies ==
    /\ \A i \in LogIdx("require") : log[i].name \in OptionalDependencies
    /\ (\A i \in LogIdx("require") :
            log[i].found <=> log[i].name \in OptionalDependencies)
          => error.kind # "Error"

=============================================================================
